---------------------------- MODULE Spec2Model ----------------------------
(***************************************************************************)
(* A model of the battleship solving engine of src/battleship.py:          *)
(* BattleshipBoard (placement catalog, rejection sampler) and              *)
(* BattleshipPlayer (move history, belief pruning, candidate world,        *)
(* target selection, reset).                                               *)
(*                                                                         *)
(* Cells are pairs <<x, y>>, placements and boards are sets of cells,      *)
(* Python lists are sequences.  Ship names ('a', 'b', ...) are the         *)
(* indices 1..Len(shipLengths), in the order of self.names.                *)
(***************************************************************************)
EXTENDS Integers, Sequences, FiniteSets

VARIABLES
    dim,                  \* BattleshipBoard.dim
    shipLengths,          \* BattleshipBoard.shipLengths, by ship index
    possShipsDict,        \* BattleshipBoard.possShipsDict: name -> list of placements
    possShipsNumDict,     \* BattleshipBoard.possShipsNumDict: name -> count
    enemy_ships,          \* BattleshipPlayer.enemy_ships: list of placements
    enemy_board,          \* BattleshipPlayer.enemy_board: set of cells
    enemy_ship_statuses,  \* name -> [sunk, confirmed_pos, hit_count]
    n_boards,             \* BattleshipPlayer.n_boards
    hits,                 \* BattleshipPlayer.hits
    misses,               \* BattleshipPlayer.misses
    random_boards,        \* BattleshipPlayer.random_boards: list of boards
    name_order,           \* BattleshipPlayer.name_order
    target_hits,          \* BattleshipPlayer.target_hits
    last_move,            \* BattleshipPlayer.last_move (0 none, 1 miss, 2 hit)
    num_hits,             \* BattleshipPlayer.num_hits
    call,                 \* the last call made on the engine: <<method, argument or result>>
    protocol,             \* TRUE while every update_game_state since the game began
                          \* directly followed a refresh of the candidate world
    init,                 \* st.session_state.init
    guess_count,          \* st.session_state.guess_count
    shown_board,          \* st.session_state.enemy_board: cell -> "~", "H" or "M"
    script                \* where the streamlit script is: <<"idle">> between runs,
                          \* else <<position, button clicked for this run>>

vars == <<dim, shipLengths, possShipsDict, possShipsNumDict, enemy_ships,
          enemy_board, enemy_ship_statuses, n_boards, hits, misses,
          random_boards, name_order, target_hits, last_move, num_hits,
          call, protocol, init, guess_count, shown_board, script>>

\* the state of the presentation shell (src/streamlit_app.py)
appvars == <<init, guess_count, shown_board, script>>

-----------------------------------------------------------------------------
(* Bounds of the exploration *)

MaxBoards == 2      \* largest population size (boards=) explored
MaxDim == 4         \* largest dimension in the catalog specification
MaxShips == 3       \* longest ship list in the catalog specification
MaxGuesses == 4     \* guesses the shell accepts before the exploration stops

\* The game configurations (dim, ships) explored by Spec.
Configs ==
    { [dim |-> 2, ships |-> <<2, 1>>],
      [dim |-> 2, ships |-> <<2, 2>>] }

None == <<>>        \* Python's None

-----------------------------------------------------------------------------
(* Python helpers *)

\* len(range(n))
RangeLen(n) == IF n > 0 THEN n ELSE 0

\* set.union(*l)
SetUnion(l) == UNION {l[i] : i \in DOMAIN l}

\* sum(d.values()) for a sequence of integers
RECURSIVE SumSeq(_)
SumSeq(s) == IF s = <<>> THEN 0 ELSE Head(s) + SumSeq(Tail(s))

\* sorted(seq, key=lambda x: key[x]): ascending and stable
Sorted(seq, key) ==
    LET pos(i) == Cardinality({j \in DOMAIN seq :
                      \/ key[seq[j]] < key[seq[i]]
                      \/ key[seq[j]] = key[seq[i]] /\ j < i}) + 1
    IN  [p \in DOMAIN seq |-> seq[CHOOSE i \in DOMAIN seq : pos(i) = p]]

\* [e for e in seq if Keep(e)] is SelectSeq(seq, Keep)

names == DOMAIN shipLengths

Cells(d) == (0 .. d - 1) \X (0 .. d - 1)

-----------------------------------------------------------------------------
(* BattleshipBoard.generateComponentLayouts *)

\* dim_limit = range(self.dim - self.shipLengths[name] + 1)
DimLimit_OffByOne(d, L) == RangeLen(d - L)
DimLimit(d, L) == RangeLen(d - L + 1)

\* The candidate list of one ship: the runs along x, then the runs along y,
\* each "for i in dim_limit for j in dim_range".
Layouts(d, L) ==
    LET n == DimLimit(d, L) * RangeLen(d)
        i(k) == (k - 1) \div d
        j(k) == (k - 1) % d
    IN  [k \in 1 .. n |-> {<<i(k) + temp, j(k)>> : temp \in 0 .. L - 1}]
        \o
        [k \in 1 .. n |-> {<<j(k), i(k) + temp>> : temp \in 0 .. L - 1}]

generateComponentLayouts(d, ships) ==
    [name \in DOMAIN ships |-> Layouts(d, ships[name])]

LayoutCounts(dict) == [name \in DOMAIN dict |-> Len(dict[name])]

-----------------------------------------------------------------------------
(* BattleshipBoard.randomBoard *)

\* the rejection test "if bool(k & t)"
Collides_Never(k, t) == FALSE
Collides(k, t) == k \cap t # {}

\* possShipsDict[name][int(possShipsNumDict[name] * random.random())]
Picks(P, Num, name) == {P[name][idx + 1] : idx \in 0 .. Num[name] - 1}

\* The lists l with which one pass of the inner "for name in rest_names"
\* loop can end with end = True, from the list l and the occupied set t.
RECURSIVE Draws(_, _, _, _, _)
Draws(l, t, rest, P, Num) ==
    IF rest = <<>> THEN {l}
    ELSE UNION { Draws(Append(l, k), t \cup k, Tail(rest), P, Num) :
                   k \in {p \in Picks(P, Num, Head(rest)) : ~Collides(p, t)} }

\* The lists l one iteration of "while len_r < batch_size" can append
\* (as l when initial, as the union t otherwise).
DrawnLists_NoFixedBase(nms, P, Num) ==
    IF Num[nms[1]] = 1
    THEN LET IsFixed(name) == Num[name] = 1
             IsFree(name) == Num[name] # 1
             fixed == SelectSeq(nms, IsFixed)
             start_l == [i \in DOMAIN fixed |-> P[fixed[i]][1]]
         IN  Draws(start_l, {}, SelectSeq(nms, IsFree), P, Num)
    ELSE UNION { Draws(<<t>>, t, Tail(nms), P, Num) : t \in Picks(P, Num, nms[1]) }
DrawnLists(nms, P, Num) ==
    IF Num[nms[1]] = 1
    THEN LET IsFixed(name) == Num[name] = 1
             IsFree(name) == Num[name] # 1
             fixed == SelectSeq(nms, IsFixed)
             start_l == [i \in DOMAIN fixed |-> P[fixed[i]][1]]
         IN  Draws(start_l, SetUnion(start_l), SelectSeq(nms, IsFree), P, Num)
    ELSE UNION { Draws(<<t>>, t, Tail(nms), P, Num) : t \in Picks(P, Num, nms[1]) }

\* randomBoard(initial=True)[0]: the ships are taken in the order of self.names
RandomFleets(P, Num) ==
    DrawnLists([i \in DOMAIN P |-> i], P, Num)

\* randomBoard(names=nms, batch_size=n): the lists of n merged boards
RandomBoards(nms, P, Num, n) ==
    [1 .. RangeLen(n) -> {SetUnion(l) : l \in DrawnLists(nms, P, Num)}]

-----------------------------------------------------------------------------
(* BattleshipPlayer.__init__ *)

FreshStatuses(ships) ==
    [name \in DOMAIN ships |-> [sunk |-> FALSE, confirmed_pos |-> {}, hit_count |-> 0]]

Init ==
    /\ \E c \in Configs :
         /\ dim = c.dim
         /\ shipLengths = c.ships
    /\ n_boards \in 1 .. MaxBoards
    /\ possShipsDict = generateComponentLayouts(dim, shipLengths)
    /\ possShipsNumDict = LayoutCounts(possShipsDict)
    /\ enemy_ships \in RandomFleets(possShipsDict, possShipsNumDict)
    /\ enemy_board = SetUnion(enemy_ships)
    /\ enemy_ship_statuses = FreshStatuses(shipLengths)
    /\ hits = {}
    /\ misses = {}
    /\ random_boards = <<>>
    /\ name_order = [i \in DOMAIN shipLengths |-> i]
    /\ target_hits = SumSeq(shipLengths)
    /\ last_move = 0
    /\ num_hits = 0
    /\ call = <<"__init__">>
    /\ protocol = TRUE
    /\ init = TRUE
    /\ guess_count = 0
    /\ shown_board = [c \in Cells(dim) |-> "~"]
    /\ script = <<"idle">>

-----------------------------------------------------------------------------
(* BattleshipPlayer.update_possible_ship_positions *)

\* the hit filter of a ship that has confirmed cells
KeepOnHit_ConfirmedOnly(conf, necessary, len_necessity, h) ==
    Cardinality(necessary \cap conf) = len_necessity
KeepOnHit_AllHits(conf, necessary, len_necessity, h) ==
    /\ Cardinality(necessary \cap conf) = len_necessity
    /\ len_necessity = Cardinality(h)
KeepOnHit(conf, necessary, len_necessity, h) ==
    /\ Cardinality(necessary \cap conf) = len_necessity
    /\ len_necessity = Cardinality(h \cap conf)

\* The new candidate list of one ship, from the statuses, history and
\* last_move that update_game_state has just written.
PrunedList_IgnoresConfirmed(list, status, h, m, lm) ==
    LET NoMiss(conf) == conf \cap m = {}
        NoHit(conf) == h \cap conf = {}
    IN  IF lm = 1 THEN SelectSeq(list, NoMiss) ELSE SelectSeq(list, NoHit)
PrunedList_UnconfirmedKept(list, status, h, m, lm) ==
    LET necessary == status.confirmed_pos
        NoMiss(conf) == conf \cap m = {}
        Explains(conf) == KeepOnHit(conf, necessary, status.hit_count, h)
    IN  IF lm = 1 THEN SelectSeq(list, NoMiss)
        ELSE IF necessary # {} THEN SelectSeq(list, Explains) ELSE list
PrunedList(list, status, h, m, lm) ==
    LET necessary == status.confirmed_pos
        NoMiss(conf) == conf \cap m = {}
        Explains(conf) == KeepOnHit(conf, necessary, status.hit_count, h)
        NoHit(conf) == h \cap conf = {}
    IN  IF necessary # {}
        THEN IF lm = 1 THEN SelectSeq(list, NoMiss) ELSE SelectSeq(list, Explains)
        ELSE IF lm = 1 THEN SelectSeq(list, NoMiss) ELSE SelectSeq(list, NoHit)

\* possShipsDict after the loop; ships with one candidate left are skipped
update_possible_ship_positions(P, statuses, h, m, lm) ==
    [name \in DOMAIN P |->
        IF Len(P[name]) = 1 THEN P[name]
        ELSE PrunedList(P[name], statuses[name], h, m, lm)]

\* possShipsNumDict after the loop: rewritten only for the ships not skipped
UpdatedCounts(P, Num, newP) ==
    [name \in DOMAIN P |-> IF Len(P[name]) = 1 THEN Num[name] ELSE Len(newP[name])]

-----------------------------------------------------------------------------
(* BattleshipPlayer.update_game_state *)

\* "if coords in self.enemy_board: if (x,y) not in self.hits:"
IsNewHit_Recount(coords) == coords \in enemy_board
IsNewHit(coords) == coords \in enemy_board /\ coords \notin hits

\* "elif coords not in self.misses:", the else-side of "coords in enemy_board"
IsNewMiss_Flattened(coords) == ~IsNewHit(coords) /\ coords \notin misses
IsNewMiss_Always(coords) == coords \notin enemy_board
IsNewMiss(coords) == coords \notin enemy_board /\ coords \notin misses

\* "if hit_count == len(ship): sunk = True"
SunkNow_OffByOne(sunk, hit_count, ship) == sunk \/ hit_count + 1 = Cardinality(ship)
SunkNow(sunk, hit_count, ship) == sunk \/ hit_count = Cardinality(ship)

\* the loop "for name, ship in zip(names, enemy_ships)": the first ship that
\* holds the cell gets the hit, then break
StatusesAfterHit_CountOnly(coords) ==
    LET holders == {i \in DOMAIN enemy_ships \cap names : coords \in enemy_ships[i]}
    IN  IF holders = {} THEN enemy_ship_statuses
        ELSE LET name == CHOOSE i \in holders : \A k \in holders : i <= k
                 old == enemy_ship_statuses[name]
                 cnt == old.hit_count + 1
             IN  [enemy_ship_statuses EXCEPT ![name] =
                    [sunk |-> SunkNow(old.sunk, cnt, enemy_ships[name]),
                     confirmed_pos |-> old.confirmed_pos,
                     hit_count |-> cnt]]
StatusesAfterHit(coords) ==
    LET holders == {i \in DOMAIN enemy_ships \cap names : coords \in enemy_ships[i]}
    IN  IF holders = {} THEN enemy_ship_statuses
        ELSE LET name == CHOOSE i \in holders : \A k \in holders : i <= k
                 old == enemy_ship_statuses[name]
                 cnt == old.hit_count + 1
             IN  [enemy_ship_statuses EXCEPT ![name] =
                    [sunk |-> SunkNow(old.sunk, cnt, enemy_ships[name]),
                     confirmed_pos |-> old.confirmed_pos \cup {coords},
                     hit_count |-> cnt]]

UpdateGameState(x, y) ==
    LET coords == <<x, y>>
    IN  /\ IF IsNewHit(coords)
           THEN LET h == hits \cup {coords}
                    st == StatusesAfterHit(coords)
                    newP == update_possible_ship_positions(possShipsDict, st, h, misses, 2)
                IN  /\ hits' = h
                    /\ num_hits' = num_hits + 1
                    /\ last_move' = 2
                    /\ enemy_ship_statuses' = st
                    /\ possShipsDict' = newP
                    /\ possShipsNumDict' = UpdatedCounts(possShipsDict, possShipsNumDict, newP)
                    /\ UNCHANGED misses
           ELSE IF IsNewMiss(coords)
           THEN LET m == misses \cup {coords}
                    newP == update_possible_ship_positions(possShipsDict, enemy_ship_statuses, hits, m, 1)
                IN  /\ last_move' = 1
                    /\ misses' = m
                    /\ possShipsDict' = newP
                    /\ possShipsNumDict' = UpdatedCounts(possShipsDict, possShipsNumDict, newP)
                    /\ UNCHANGED <<hits, num_hits, enemy_ship_statuses>>
           ELSE UNCHANGED <<hits, misses, num_hits, last_move, enemy_ship_statuses,
                            possShipsDict, possShipsNumDict>>
        /\ call' = <<"update_game_state", coords>>
        /\ protocol' = (protocol /\ call[1] \in {"take_turn", "generate_random_boards"})
        /\ UNCHANGED <<dim, shipLengths, enemy_ships, enemy_board, n_boards,
                       random_boards, name_order, target_hits>>

\* BattleshipPlayer.check_all_sunk
check_all_sunk == num_hits = target_hits

-----------------------------------------------------------------------------
(* BattleshipPlayer.generate_random_boards *)

\* the boards kept by the filter, chosen by the kind of the last move only
SurvivingBoards(boards, h, m, lm) ==
    LET NoMiss(b) == b \cap m = {}
        AllHits(b) == h \ b = {}
    IN  IF lm = 1 THEN SelectSeq(boards, NoMiss) ELSE SelectSeq(boards, AllHits)

\* the values random_boards can have after the call, with the new name_order
RefreshedBoards_FullBatch(order) ==
    LET kept == SurvivingBoards(random_boards, hits, misses, last_move)
    IN  {kept \o fresh : fresh \in RandomBoards(order, possShipsDict, possShipsNumDict,
                                                n_boards)}
RefreshedBoards(order) ==
    LET kept == SurvivingBoards(random_boards, hits, misses, last_move)
    IN  {kept \o fresh : fresh \in RandomBoards(order, possShipsDict, possShipsNumDict,
                                                n_boards - Len(kept))}

generate_random_boards ==
    LET order == Sorted(name_order, possShipsNumDict)
    IN  /\ name_order' = order
        /\ random_boards' \in RefreshedBoards(order)
        /\ call' = <<"generate_random_boards">>
        /\ UNCHANGED <<dim, shipLengths, possShipsDict, possShipsNumDict, enemy_ships,
                       enemy_board, enemy_ship_statuses, n_boards, hits, misses,
                       target_hits, last_move, num_hits, protocol>>

-----------------------------------------------------------------------------
(* BattleshipPlayer.take_turn *)

\* Counter(chain.from_iterable(boards))[tile]
Frequency(boards, tile) == Cardinality({i \in DOMAIN boards : tile \in boards[i]})

\* the keys of the Counter
Counted(boards) == SetUnion(boards)

\* the argument of most_common
Window_TooWide(h) == Cardinality(h) + 2
Window(h) == Cardinality(h) + 1

\* The sets of tiles most_common(n) can return: the n most frequent tiles.
\* Tiles of equal frequency come in the order the Counter first met them,
\* which is the iteration order of Python sets: any order here.
MostCommon(boards, n) ==
    LET keys == Counted(boards)
        k == IF n < Cardinality(keys) THEN n ELSE Cardinality(keys)
    IN  {T \in SUBSET keys :
            /\ Cardinality(T) = k
            /\ \A a \in T, b \in keys \ T : Frequency(boards, a) >= Frequency(boards, b)}

\* The tiles the loop over most_common(...)[::-1] can return: the first tile
\* of the reversed list that is not in hits, None when the loop runs out.
Chosen_LastTile(boards, h) ==
    UNION { LET open == T \ h
            IN  IF open = {} THEN T
                ELSE {r \in open : \A o \in open :
                          Frequency(boards, r) <= Frequency(boards, o)}
            : T \in MostCommon(boards, Window(h)) }
Chosen(boards, h) ==
    UNION { LET open == T \ h
            IN  IF open = {} THEN {None}
                ELSE {r \in open : \A o \in open :
                          Frequency(boards, r) <= Frequency(boards, o)}
            : T \in MostCommon(boards, Window(h)) }

take_turn ==
    LET order == Sorted(name_order, possShipsNumDict)
    IN  /\ name_order' = order
        /\ random_boards' \in RefreshedBoards(order)
        /\ \E tile \in Chosen(random_boards', hits) : call' = <<"take_turn", tile>>
        /\ UNCHANGED <<dim, shipLengths, possShipsDict, possShipsNumDict, enemy_ships,
                       enemy_board, enemy_ship_statuses, n_boards, hits, misses,
                       target_hits, last_move, num_hits, protocol>>

-----------------------------------------------------------------------------
(* BattleshipPlayer.reset *)

\* self.board.generateComponentLayouts()
ResetLayouts_Stale == possShipsDict
ResetLayouts == generateComponentLayouts(dim, shipLengths)

Reset ==
    /\ possShipsDict' = ResetLayouts
    /\ possShipsNumDict' = LayoutCounts(possShipsDict')
    /\ enemy_ships' \in RandomFleets(possShipsDict', possShipsNumDict')
    /\ enemy_board' = SetUnion(enemy_ships')
    /\ enemy_ship_statuses' = FreshStatuses(shipLengths)
    /\ last_move' = 0
    /\ num_hits' = 0
    /\ hits' = {}
    /\ misses' = {}
    /\ random_boards' = <<>>
    /\ name_order' = [i \in DOMAIN shipLengths |-> i]
    /\ call' = <<"reset">>
    /\ protocol' = TRUE
    /\ UNCHANGED <<dim, shipLengths, n_boards, target_hits>>
    /\ UNCHANGED appvars

-----------------------------------------------------------------------------
\* The engine driven directly, call by call, the shell standing still.
Move ==
    /\ \E x \in 0 .. dim - 1, y \in 0 .. dim - 1 : UpdateGameState(x, y)
    /\ UNCHANGED appvars

GenerateRandomBoards == generate_random_boards /\ UNCHANGED appvars

TakeTurn == take_turn /\ UNCHANGED appvars

Next ==
    \/ Move
    \/ GenerateRandomBoards
    \/ TakeTurn
    \/ Reset

Spec == Init /\ [][Next]_vars

-----------------------------------------------------------------------------
(* The presentation shell, src/streamlit_app.py: every interaction runs the *)
(* script once from the top, with at most one button reporting a click.     *)

Buttons == {"none", "suggested", "submit", "reset"}

BlankBoard == [c \in Cells(dim) |-> "~"]

\* enemy_board[y][x] = 'H' if the cell is in player.hits after the move, else 'M'
Marked(board, coords, h) == [board EXCEPT ![coords] = IF coords \in h THEN "H" ELSE "M"]

\* a run may start with a guess button only while guesses are left to explore
MayClick(b, count) == b \in {"suggested", "submit"} => count < MaxGuesses

\* A run that finds init = True: the block "if st.session_state.init:"
AppRunInit(b) ==
    /\ script = <<"idle">>
    /\ init
    /\ MayClick(b, 0)
    /\ init' = FALSE
    /\ guess_count' = 0
    /\ generate_random_boards
    /\ shown_board' = BlankBoard
    /\ script' = <<"turn", b>>

\* A run that finds init = False goes straight to take_turn
AppRunPlain(b) ==
    /\ script = <<"idle">>
    /\ ~init
    /\ MayClick(b, guess_count)
    /\ script' = <<"turn", b>>
    /\ UNCHANGED <<dim, shipLengths, possShipsDict, possShipsNumDict, enemy_ships,
                   enemy_board, enemy_ship_statuses, n_boards, hits, misses,
                   random_boards, name_order, target_hits, last_move, num_hits,
                   call, protocol, init, guess_count, shown_board>>

\* best_guess = st.session_state.player.take_turn(); the result is call[2]
AppTakeTurn ==
    /\ script[1] = "turn"
    /\ take_turn
    /\ script' = <<"widgets", script[2]>>
    /\ UNCHANGED <<init, guess_count, shown_board>>

\* the body of a guess button for the cell <<x, y>>, ending in st.rerun()
AppGuess(x, y) ==
    /\ UpdateGameState(x, y)
    /\ shown_board' = Marked(shown_board, <<x, y>>, hits')
    /\ guess_count' = guess_count + 1
    /\ script' = <<"turn", "none">>
    /\ UNCHANGED init

\* "Use Suggested Guess": x_coordinate, y_coordinate = best_guess
AppUseSuggested ==
    /\ script = <<"widgets", "suggested">>
    /\ call[2] # None
    /\ AppGuess(call[2][1], call[2][2])

\* "Use Suggested Guess" with best_guess = None: the unpacking raises
\* TypeError and the run ends there
AppSuggestedFails ==
    /\ script = <<"widgets", "suggested">>
    /\ call[2] = None
    /\ script' = <<"idle">>
    /\ UNCHANGED <<dim, shipLengths, possShipsDict, possShipsNumDict, enemy_ships,
                   enemy_board, enemy_ship_statuses, n_boards, hits, misses,
                   random_boards, name_order, target_hits, last_move, num_hits,
                   call, protocol, init, guess_count, shown_board>>

\* "Submit Guess" with the cell of the two sliders
AppSubmit ==
    /\ script = <<"widgets", "submit">>
    /\ \E x \in 0 .. dim - 1, y \in 0 .. dim - 1 : AppGuess(x, y)

\* "Reset Game": st.session_state.init = True, the last statement of the script
AppReset ==
    /\ script = <<"widgets", "reset">>
    /\ init' = TRUE
    /\ script' = <<"idle">>
    /\ UNCHANGED <<dim, shipLengths, possShipsDict, possShipsNumDict, enemy_ships,
                   enemy_board, enemy_ship_statuses, n_boards, hits, misses,
                   random_boards, name_order, target_hits, last_move, num_hits,
                   call, protocol, guess_count, shown_board>>

\* no button clicked (a slider moved, a rerun): the script runs to its end
AppNoClick ==
    /\ script = <<"widgets", "none">>
    /\ script' = <<"idle">>
    /\ UNCHANGED <<dim, shipLengths, possShipsDict, possShipsNumDict, enemy_ships,
                   enemy_board, enemy_ship_statuses, n_boards, hits, misses,
                   random_boards, name_order, target_hits, last_move, num_hits,
                   call, protocol, init, guess_count, shown_board>>

NextApp ==
    \/ \E b \in Buttons : AppRunInit(b)
    \/ \E b \in Buttons : AppRunPlain(b)
    \/ AppTakeTurn
    \/ AppUseSuggested
    \/ AppSuggestedFails
    \/ AppSubmit
    \/ AppReset
    \/ AppNoClick

SpecApp == Init /\ [][NextApp]_vars

-----------------------------------------------------------------------------
(* The catalog on its own: BattleshipBoard(dim, ships) for every board      *)
(* dimension up to MaxDim and every list of up to MaxShips lengths.         *)

ShipLists(d) == UNION {[1 .. n -> 1 .. d + 1] : n \in 0 .. MaxShips}

InitCatalog ==
    /\ dim \in 1 .. MaxDim
    /\ shipLengths \in ShipLists(dim)
    /\ possShipsDict = <<>>
    /\ possShipsNumDict = <<>>
    /\ enemy_ships = <<>>
    /\ enemy_board = {}
    /\ enemy_ship_statuses = <<>>
    /\ n_boards = 0
    /\ hits = {}
    /\ misses = {}
    /\ random_boards = <<>>
    /\ name_order = <<>>
    /\ target_hits = 0
    /\ last_move = 0
    /\ num_hits = 0
    /\ call = <<"BattleshipBoard">>
    /\ protocol = TRUE
    /\ init = TRUE
    /\ guess_count = 0
    /\ shown_board = <<>>
    /\ script = <<"idle">>

\* BattleshipBoard.__init__: self.generateComponentLayouts()
BoardInit ==
    /\ call = <<"BattleshipBoard">>
    /\ possShipsDict' = generateComponentLayouts(dim, shipLengths)
    /\ possShipsNumDict' = LayoutCounts(possShipsDict')
    /\ call' = <<"generateComponentLayouts">>
    /\ UNCHANGED <<dim, shipLengths, enemy_ships, enemy_board, enemy_ship_statuses,
                   n_boards, hits, misses, random_boards, name_order, target_hits,
                   last_move, num_hits, protocol>>
    /\ UNCHANGED appvars

NextCatalog == BoardInit

SpecCatalog == InitCatalog /\ [][NextCatalog]_vars

-----------------------------------------------------------------------------
(* Construction of a player for any ship list: BattleshipBoard(dim, ships),  *)
(* then randomBoard(initial=True) and the rest of BattleshipPlayer.__init__. *)

\* Whether a pass of the inner loop of randomBoard, from the occupied set t,
\* can reach a ship with an empty candidate list without a collision before
\* it: indexing possShipsDict[name][0] then raises IndexError.
RECURSIVE Raises(_, _, _, _)
Raises(t, rest, P, Num) ==
    IF rest = <<>> THEN FALSE
    ELSE IF Num[Head(rest)] = 0 THEN TRUE
    ELSE \E k \in Picks(P, Num, Head(rest)) :
            ~Collides(k, t) /\ Raises(t \cup k, Tail(rest), P, Num)

\* The exceptions randomBoard(initial=True) can raise: unpacking
\* "first_name, *rest_names = self.names" of no names is a ValueError.
RandomFleetErrors(P, Num) ==
    LET nms == [i \in DOMAIN P |-> i]
    IN  IF nms = <<>> THEN {"ValueError"}
        ELSE IF Num[nms[1]] = 1
        THEN LET IsFixed(name) == Num[name] = 1
                 IsFree(name) == Num[name] # 1
                 fixed == SelectSeq(nms, IsFixed)
                 start_l == [i \in DOMAIN fixed |-> P[fixed[i]][1]]
             IN  IF Raises(SetUnion(start_l), SelectSeq(nms, IsFree), P, Num)
                 THEN {"IndexError"} ELSE {}
        ELSE IF Num[nms[1]] = 0 THEN {"IndexError"}
        ELSE IF \E t \in Picks(P, Num, nms[1]) : Raises(t, Tail(nms), P, Num)
             THEN {"IndexError"} ELSE {}

\* BattleshipPlayer.__init__ returning an engine
PlayerInitOk ==
    /\ call = <<"generateComponentLayouts">>
    /\ names # {}
    /\ enemy_ships' \in RandomFleets(possShipsDict, possShipsNumDict)
    /\ enemy_board' = SetUnion(enemy_ships')
    /\ enemy_ship_statuses' = FreshStatuses(shipLengths)
    /\ n_boards' \in 1 .. MaxBoards
    /\ name_order' = [i \in DOMAIN shipLengths |-> i]
    /\ target_hits' = SumSeq(shipLengths)
    /\ call' = <<"__init__">>
    /\ UNCHANGED <<dim, shipLengths, possShipsDict, possShipsNumDict, hits, misses,
                   random_boards, last_move, num_hits, protocol>>
    /\ UNCHANGED appvars

\* BattleshipPlayer.__init__ leaving with the exception of randomBoard
PlayerInitRaises ==
    /\ call = <<"generateComponentLayouts">>
    /\ \E e \in RandomFleetErrors(possShipsDict, possShipsNumDict) :
          call' = <<"__init__", e>>
    /\ UNCHANGED <<dim, shipLengths, possShipsDict, possShipsNumDict, enemy_ships,
                   enemy_board, enemy_ship_statuses, n_boards, hits, misses,
                   random_boards, name_order, target_hits, last_move, num_hits,
                   protocol>>
    /\ UNCHANGED appvars

NextConstruct ==
    \/ BoardInit
    \/ PlayerInitOk
    \/ PlayerInitRaises

SpecConstruct == InitCatalog /\ [][NextConstruct]_vars

-----------------------------------------------------------------------------
(* Properties *)

\* p is one contiguous horizontal or vertical run of L cells inside the grid
IsRun(p, d, L) ==
    /\ Cardinality(p) = L
    /\ p \subseteq Cells(d)
    /\ \E x0 \in 0 .. d - 1, y0 \in 0 .. d - 1 :
          \/ p = {<<x0 + temp, y0>> : temp \in 0 .. L - 1}
          \/ p = {<<x0, y0 + temp>> : temp \in 0 .. L - 1}

\* fleet is one legal placement per ship, in ship order, pairwise disjoint
LegalFleet(fleet) ==
    /\ DOMAIN fleet = DOMAIN shipLengths
    /\ \A i \in DOMAIN fleet : IsRun(fleet[i], dim, shipLengths[i])
    /\ \A i, j \in DOMAIN fleet : i # j => fleet[i] \cap fleet[j] = {}

Refreshed == call[1] \in {"take_turn", "generate_random_boards"}

\* C1: check_all_sunk() is true exactly when num_hits equals the sum of the
\* ship lengths, which is exactly when every cell of the fleet is in hits;
\* once true it stays true until reset.
AllSunkExact ==
    /\ check_all_sunk <=> (num_hits = SumSeq(shipLengths))
    /\ check_all_sunk <=> (enemy_board \subseteq hits)
C1_AllSunk ==
    /\ []AllSunkExact
    /\ [][(check_all_sunk /\ call'[1] # "reset") => check_all_sunk']_vars
C1_Witness ==
    /\ check_all_sunk
    /\ call[1] = "update_game_state"
    /\ misses # {}

\* C2: update_game_state on a cell already in hits or misses changes neither
\* hits, misses, num_hits, last_move, the ship statuses nor the candidate lists.
C2_RedundantMoveNoOp ==
    [][(call'[1] = "update_game_state" /\ call'[2] \in hits \cup misses)
          => UNCHANGED <<hits, misses, num_hits, last_move, enemy_ship_statuses,
                         possShipsDict, possShipsNumDict>>]_vars
\* a hit cell submitted again after a later miss (a new hit would leave last_move = 2)
C2_Witness ==
    /\ call[1] = "update_game_state"
    /\ \/ call[2] \in hits /\ last_move = 1
       \/ call[2] \in misses /\ last_move = 2

\* C3: every candidate placement of every ship holds no miss cell; for a ship
\* with confirmed cells it holds all of them and no other hit cell; for a ship
\* without confirmed cells it holds no hit cell.
C3_CandidatesConsistent ==
    \A name \in names : \A i \in DOMAIN possShipsDict[name] :
        LET conf == possShipsDict[name][i]
            confirmed == enemy_ship_statuses[name].confirmed_pos
        IN  /\ conf \cap misses = {}
            /\ confirmed # {} => /\ confirmed \subseteq conf
                                 /\ (hits \ confirmed) \cap conf = {}
            /\ confirmed = {} => conf \cap hits = {}
\* a ship is down to one candidate (its pruning is skipped) while another
\* ship has been hit and a miss is recorded
C3_Witness ==
    /\ call[1] = "update_game_state"
    /\ misses # {}
    /\ \E a, b \in names :
          /\ a # b
          /\ Len(possShipsDict[a]) = 1
          /\ enemy_ship_statuses[a].confirmed_pos # {}
          /\ enemy_ship_statuses[b].confirmed_pos # {}

\* C4: after every generate_random_boards / take_turn, whatever the
\* interleaving of calls, every board of the candidate world holds every hit
\* cell and no miss cell.
C4_BoardsConsistent ==
    Refreshed => \A i \in DOMAIN random_boards :
                    /\ hits \subseteq random_boards[i]
                    /\ random_boards[i] \cap misses = {}

\* C5: under the turn protocol and while not all ships are sunk, take_turn
\* returns a cell that is not hit and no un-hit cell is in strictly more
\* candidate boards than it.
C5_MaxFrequency ==
    (call[1] = "take_turn" /\ protocol /\ ~check_all_sunk) =>
        /\ call[2] \in Cells(dim) \ hits
        /\ \A c \in Cells(dim) \ hits :
              Frequency(random_boards, c) <= Frequency(random_boards, call[2])
\* a recommendation made with hits on record while some un-hit cell is in
\* fewer (but some) boards than the returned one
C5_Witness ==
    /\ call[1] = "take_turn" /\ protocol /\ ~check_all_sunk
    /\ hits # {}
    /\ call[2] # None
    /\ \E c \in Cells(dim) \ hits :
          /\ Frequency(random_boards, c) > 0
          /\ Frequency(random_boards, c) < Frequency(random_boards, call[2])

\* C6: the secret fleet has one legal placement per ship, in ship order, the
\* placements are pairwise disjoint and their union, the occupied-cell set,
\* has sum-of-ship-lengths cells.
C6_FleetLegal ==
    /\ LegalFleet(enemy_ships)
    /\ enemy_board = SetUnion(enemy_ships)
    /\ Cardinality(enemy_board) = SumSeq(shipLengths)
C6_Witness ==
    /\ call[1] = "reset"
    /\ Len(enemy_ships) > 1

\* C7: for 1 <= L <= D the candidate list of a ship of length L has
\* 2*D*(D-L+1) entries, possShipsNumDict holds that count, and every entry is
\* a contiguous run of L cells inside the grid.
C7_CatalogSize ==
    call[1] = "generateComponentLayouts" =>
        \A name \in names :
            LET L == shipLengths[name]
            IN  (1 <= L /\ L <= dim) =>
                  /\ Len(possShipsDict[name]) = 2 * dim * (dim - L + 1)
                  /\ possShipsNumDict[name] = 2 * dim * (dim - L + 1)
                  /\ \A i \in DOMAIN possShipsDict[name] :
                        IsRun(possShipsDict[name][i], dim, L)
C7_Witness ==
    /\ call[1] = "generateComponentLayouts"
    /\ \E name \in names : 1 < shipLengths[name] /\ shipLengths[name] < dim

\* C8: hits and misses are disjoint, hits lie inside the fleet's cells and
\* misses outside, and between resets both sets only grow.
HistorySound ==
    /\ hits \cap misses = {}
    /\ hits \subseteq enemy_board
    /\ misses \cap enemy_board = {}
C8_NeverReclassified ==
    /\ []HistorySound
    /\ [][call'[1] # "reset" => (hits \subseteq hits' /\ misses \subseteq misses')]_vars
C8_Witness ==
    /\ call[1] = "update_game_state"
    /\ call[2] \in hits
    /\ misses # {}
    /\ Cardinality(hits) > 1

\* C9: a ship's sunk flag is true exactly when its hit count equals its length.
C9_SunkIffFull ==
    \A name \in names :
        enemy_ship_statuses[name].sunk <=>
            (enemy_ship_statuses[name].hit_count = shipLengths[name])
C9_Witness ==
    \E a, b \in names :
        /\ enemy_ship_statuses[a].sunk
        /\ ~enemy_ship_statuses[b].sunk
        /\ enemy_ship_statuses[b].hit_count > 0

\* C10: reset leaves the state of a freshly constructed engine of the same
\* configuration: full candidate lists, empty history and candidate world,
\* fresh statuses, a legal fleet; dim, ship lengths, target_hits and n_boards
\* are unchanged.
FreshGame ==
    /\ possShipsDict = generateComponentLayouts(dim, shipLengths)
    /\ possShipsNumDict = LayoutCounts(possShipsDict)
    /\ LegalFleet(enemy_ships)
    /\ enemy_board = SetUnion(enemy_ships)
    /\ \A name \in names :
          enemy_ship_statuses[name] = [sunk |-> FALSE, confirmed_pos |-> {}, hit_count |-> 0]
    /\ hits = {} /\ misses = {} /\ random_boards = <<>>
    /\ num_hits = 0 /\ last_move = 0
    /\ name_order = [i \in DOMAIN shipLengths |-> i]
    /\ target_hits = SumSeq(shipLengths)
C10_ResetFresh ==
    [][call'[1] = "reset" =>
          /\ FreshGame'
          /\ UNCHANGED <<dim, shipLengths, target_hits, n_boards>>]_vars
C10_Witness ==
    /\ call[1] = "reset"
    /\ FreshGame

-----------------------------------------------------------------------------
\* C11: after every generate_random_boards / take_turn the candidate world
\* holds exactly n_boards boards, also when every ship is down to one candidate.
C11_PopulationSize ==
    Refreshed => Len(random_boards) = n_boards
\* a refresh with every ship fixed and a population of more than one board
C11_Witness ==
    /\ Refreshed
    /\ n_boards > 1
    /\ \A name \in names : possShipsNumDict[name] = 1
    /\ \A i \in DOMAIN random_boards : random_boards[i] = random_boards[1]

\* b is the union of one legal placement per ship, pairwise disjoint
IsLayout(b) ==
    \E fleet \in [names -> SUBSET Cells(dim)] :
        LegalFleet(fleet) /\ SetUnion(fleet) = b

\* the sum over the cells of S of their occupancy frequency
RECURSIVE SumFrequency(_, _)
SumFrequency(S, boards) ==
    IF S = {} THEN 0
    ELSE LET c == CHOOSE e \in S : TRUE
         IN  Frequency(boards, c) + SumFrequency(S \ {c}, boards)

C14_ReturnsUntried ==
    (call[1] = "take_turn" /\ ~check_all_sunk) =>
        call[2] \in Cells(dim) \ (hits \cup misses)

\* C15: the confirmed-hit sets of the ships are pairwise disjoint, their
\* union is hits, each lies inside its ship's placement, hit_count is the
\* size of the confirmed-hit set, num_hits is |hits| and the sum of the hit
\* counts; a miss changes no ship status and no hit count.
Attribution ==
    /\ \A a, b \in names : a # b =>
          enemy_ship_statuses[a].confirmed_pos \cap enemy_ship_statuses[b].confirmed_pos = {}
    /\ UNION {enemy_ship_statuses[a].confirmed_pos : a \in names} = hits
    /\ \A a \in names :
          /\ enemy_ship_statuses[a].confirmed_pos \subseteq enemy_ships[a]
          /\ enemy_ship_statuses[a].hit_count = Cardinality(enemy_ship_statuses[a].confirmed_pos)
    /\ num_hits = Cardinality(hits)
    /\ num_hits = SumSeq([a \in names |-> enemy_ship_statuses[a].hit_count])
C15_HitAttribution ==
    /\ []Attribution
    /\ [][(call'[1] = "update_game_state" /\ call'[2] \notin enemy_board)
             => UNCHANGED <<enemy_ship_statuses, num_hits>>]_vars
\* both ships have been hit and a miss was the last move
C15_Witness ==
    /\ call[1] = "update_game_state"
    /\ call[2] \in misses
    /\ last_move = 1
    /\ \A a \in names : enemy_ship_statuses[a].hit_count > 0

\* C16: in every state the rejection sampler run by take_turn has a layout it
\* can draw: with the ship order take_turn would use, some pass of the retry
\* loop ends without a collision.
C16_SamplerCanSucceed ==
    DrawnLists(Sorted(name_order, possShipsNumDict), possShipsDict, possShipsNumDict) # {}
\* late in a game: one ship fixed, hits and misses on record, not all sunk
C16_Witness ==
    /\ Refreshed
    /\ hits # {} /\ misses # {}
    /\ ~check_all_sunk
    /\ \E name \in names : possShipsNumDict[name] = 1

\* C17: every ship's placement in the secret fleet is in its candidate list,
\* so no list is empty and a list of one entry holds the true placement.
C17_TruthSurvives ==
    \A name \in names :
        /\ \E i \in DOMAIN possShipsDict[name] : possShipsDict[name][i] = enemy_ships[name]
        /\ possShipsDict[name] # <<>>
        /\ Len(possShipsDict[name]) = 1 => possShipsDict[name] = <<enemy_ships[name]>>
C17_Witness ==
    /\ call[1] = "update_game_state"
    /\ \E a, b \in names :
          /\ Len(possShipsDict[a]) = 1
          /\ Len(possShipsDict[b]) > 1
          /\ Len(possShipsDict[b]) < Len(Layouts(dim, shipLengths[b]))

\* conf is consistent with the final history for the ship name
ConsistentWithHistory(conf, name) ==
    LET confirmed == hits \cap enemy_ships[name]
    IN  /\ conf \cap misses = {}
        /\ confirmed \subseteq conf
        /\ (hits \ confirmed) \cap conf = {}

\* C18: the ship statuses and the candidate lists depend on the set of moves
\* only, not on their order: each status is the one the fleet and hits
\* determine, and each candidate list is the full enumeration filtered once
\* by the final history.
C18_OrderIndependent ==
    \A name \in names :
        LET Keep(conf) == ConsistentWithHistory(conf, name)
        IN  /\ possShipsDict[name] = SelectSeq(Layouts(dim, shipLengths[name]), Keep)
            /\ possShipsNumDict[name] = Len(possShipsDict[name])
            /\ enemy_ship_statuses[name] =
                  [sunk |-> enemy_ships[name] \subseteq hits,
                   confirmed_pos |-> hits \cap enemy_ships[name],
                   hit_count |-> Cardinality(hits \cap enemy_ships[name])]
\* hits on both ships and a miss, the last move being a hit
C18_Witness ==
    /\ call[1] = "update_game_state"
    /\ last_move = 2
    /\ misses # {}
    /\ \A a \in names : enemy_ship_statuses[a].hit_count > 0
    /\ ~check_all_sunk

InvalidConfig == names = {} \/ \E name \in names : shipLengths[name] > dim

\* C13: constructing an engine with a ship longer than the board dimension,
\* or with no ship, ends with an error for the caller and never with an engine.
C13_InvalidConfigRaises ==
    InvalidConfig =>
        /\ call = <<"generateComponentLayouts">> =>
              RandomFleetErrors(possShipsDict, possShipsNumDict) # {}
        /\ call[1] = "__init__" => Len(call) = 2

\* C20: once a script run has processed a 'Reset Game' click (the init
\* block is the only caller of generate_random_boards in the shell), the
\* engine is in a fresh-game state, hits and misses empty, in agreement with
\* the cleared grid and the zeroed guess counter.
C20_ResetClearsEngine ==
    (call[1] = "generate_random_boards" /\ script[1] = "turn") =>
        /\ shown_board = BlankBoard /\ guess_count = 0
        /\ hits = {} /\ misses = {}
        /\ num_hits = 0 /\ last_move = 0
        /\ enemy_ship_statuses = FreshStatuses(shipLengths)
        /\ possShipsDict = generateComponentLayouts(dim, shipLengths)

=============================================================================
